---------------------------- MODULE Spec2Model ----------------------------
(***************************************************************************)
(* A model of gritaudit's scripts/run-audit.js: the audit run (main, the   *)
(* two runLighthouse calls and the scanPage call of every page, the report *)
(* files and the webhook POST) and its three pure parts (the score/metric  *)
(* normalisation of runLighthouse, the image inventory of scanPage, and    *)
(* prioritizeFindings).                                                    *)
(*                                                                         *)
(* Numbers that are fractions in the program (category scores, metric      *)
(* values) are fixed-point integers here: a metric value m is the integer  *)
(* m * Scale, a category score s (0..1) is the integer s * ScoreScale.     *)
(* A JavaScript value that may be null is a tagged record (Null, Num(x),   *)
(* Str(s)); a string whose characters matter is a sequence of characters.  *)
(***************************************************************************)
EXTENDS Integers, Sequences, FiniteSets, TLC

VARIABLES
    pc,        \* where main() is: "start", "await", "posting", "exited"
    cur,       \* index in PAGES of the page whose Promise.all is awaited
    ops,       \* ops[p][k]: position of call k of page p
    settle,    \* settle[p][k]: how lighthouse() settled, kept for the finally
    browser,   \* browser[p][k]: the Chrome instance of scorer call k of page p
    res,       \* res[p][k]: the value call k of page p resolved with
    report,    \* report.pages, the list of PageRecords
    files,     \* what this run wrote under out/
    posts,     \* number of webhook POSTs issued
    errlog,    \* what console.error was called for
    exitCode,  \* the process's exit code, -1 while it runs
    webhook,   \* GOOGLE_SHEETS_WEBHOOK_URL
    arg,       \* the argument of the pure function under check
    ret        \* and its result

runVars == <<pc, cur, ops, settle, browser, res, report, files, posts, errlog,
             exitCode, webhook>>
vars == <<pc, cur, ops, settle, browser, res, report, files, posts, errlog,
          exitCode, webhook, arg, ret>>

-----------------------------------------------------------------------------
(* JavaScript values *)

Null == [tag |-> "null"]
Undefined == [tag |-> "undefined"]
Num(x) == [tag |-> "num", val |-> x]
Str(s) == [tag |-> "str", val |-> s]
None == [tag |-> "none"]

\* x ?? d
Coalesce(x, d) == IF x = Null \/ x = Undefined THEN d ELSE x

\* one unit of a metric value is 1/Scale (ms for lcp_ms, unitless for cls)
Scale == 10000
\* one unit of a category score is 1/ScoreScale
ScoreScale == 1000

Min(a, b) == IF a < b THEN a ELSE b

-----------------------------------------------------------------------------
(* prioritizeFindings *)

\* lcp_ms > 3500
LCP_LIMIT == 3500 * Scale
\* cls > 0.1
CLS_LIMIT == Scale \div 10
\* imageCount > 25
IMAGE_LIMIT == 25

\* >= in place of >
PerformanceRuleGe(lhMobile) ==
    /\ lhMobile.metrics.lcp_ms # Null
    /\ lhMobile.metrics.lcp_ms.val >= LCP_LIMIT

PerformanceRule(lhMobile) ==
    /\ lhMobile.metrics.lcp_ms # Null
    /\ lhMobile.metrics.lcp_ms.val > LCP_LIMIT

LayoutRule(lhMobile) ==
    /\ lhMobile.metrics.cls # Null
    /\ lhMobile.metrics.cls.val > CLS_LIMIT

AltRule(scan) == scan.missingAltCount > 0

\* Math.ceil in place of Math.floor
HalfCeil(n) == (n + 1) \div 2
\* Math.floor(scan.imageCount * 0.5)
HalfFloor(n) == n \div 2

ImagesRule(scan) ==
    /\ scan.imageCount > IMAGE_LIMIT
    /\ scan.lazyCount < HalfFloor(scan.imageCount)

TrustRule(scan) == scan.hasAddToCart /\ ~scan.hasShippingText

Finding(sev, type) == [severity |-> sev, type |-> type]

\* findings.unshift(f) in place of findings.push(f)
PushIfFront(findings, c, f) == IF c THEN <<f>> \o findings ELSE findings
\* findings.push(f) when c
PushIf(findings, c, f) == IF c THEN Append(findings, f) ELSE findings

\* The recommendation text of a finding is not modelled.
prioritizeFindings(lhMobile, scan) ==
    LET f1 == PushIf(<<>>, PerformanceRule(lhMobile), Finding("HIGH", "Performance"))
        f2 == PushIf(f1, LayoutRule(lhMobile), Finding("MED", "UX / Layout"))
        f3 == PushIf(f2, AltRule(scan), Finding("MED", "Accessibility / SEO"))
        f4 == PushIf(f3, ImagesRule(scan), Finding("MED", "Images"))
        f5 == PushIf(f4, TrustRule(scan), Finding("LOW", "Trust / Conversion"))
    IN  f5

-----------------------------------------------------------------------------
(* runLighthouse: the normalisation of lighthouse's result (lhr) *)

CategoryNames == {"performance", "accessibility", "best-practices", "seo"}
AuditNames == {"largest-contentful-paint", "cumulative-layout-shift",
               "total-blocking-time", "speed-index"}

\* x || 0 for a number or null
OrZero(x) == IF x = Null \/ x = Undefined \/ x = Num(0) THEN 0 ELSE x.val

\* Math.round(x) of the non-negative fraction n / d
MathRound(n, d) == (2 * n + d) \div (2 * d)

\* Math.round((score || 0) * 100)
ScoreOf(score) == MathRound(OrZero(score) * 100, ScoreScale)

\* || 0 in place of ?? null
MetricOfOrZero(audit) ==
    IF audit = Undefined THEN Num(0) ELSE Coalesce(audit.numericValue, Num(0))

\* lhr.audits[name]?.numericValue ?? null
MetricOf(audit) ==
    IF audit = Undefined THEN Null ELSE Coalesce(audit.numericValue, Null)

\* The scores and metrics of the value runLighthouse returns; its third
\* field, report, is lhr itself and is read by no caller.
Normalize(lhr) ==
    [scores |->
        [performance   |-> ScoreOf(lhr.categories["performance"].score),
         accessibility |-> ScoreOf(lhr.categories["accessibility"].score),
         bestPractices |-> ScoreOf(lhr.categories["best-practices"].score),
         seo           |-> ScoreOf(lhr.categories["seo"].score)],
     metrics |->
        [lcp_ms        |-> MetricOf(lhr.audits["largest-contentful-paint"]),
         cls           |-> MetricOf(lhr.audits["cumulative-layout-shift"]),
         tbt_ms        |-> MetricOf(lhr.audits["total-blocking-time"]),
         speedIndex_ms |-> MetricOf(lhr.audits["speed-index"])]]

-----------------------------------------------------------------------------
(* scanPage: the signals read from the parsed document *)

WhiteSpace == {" ", "\t", "\n"}

RECURSIVE TrimStart(_)
TrimStart(s) ==
    IF s = <<>> THEN s
    ELSE IF Head(s) \in WhiteSpace THEN TrimStart(Tail(s)) ELSE s

RECURSIVE TrimEnd(_)
TrimEnd(s) ==
    IF s = <<>> THEN s
    ELSE IF s[Len(s)] \in WhiteSpace THEN TrimEnd(SubSeq(s, 1, Len(s) - 1)) ELSE s

\* s.trim()
Trim(s) == TrimEnd(TrimStart(s))

UpperCase == <<"A", "B", "C", "D", "E", "F", "G", "H", "I", "J", "K", "L", "M",
               "N", "O", "P", "Q", "R", "S", "T", "U", "V", "W", "X", "Y", "Z">>
LowerCase == <<"a", "b", "c", "d", "e", "f", "g", "h", "i", "j", "k", "l", "m",
               "n", "o", "p", "q", "r", "s", "t", "u", "v", "w", "x", "y", "z">>

LowerChar(c) ==
    IF \E n \in 1..26 : UpperCase[n] = c
    THEN LowerCase[CHOOSE n \in 1..26 : UpperCase[n] = c]
    ELSE c

\* s.toLowerCase()
ToLowerCase(s) == [n \in 1..Len(s) |-> LowerChar(s[n])]

\* s.includes(w)
Includes(s, w) ==
    \E n \in 0..(Len(s) - Len(w)) : SubSeq(s, n + 1, n + Len(w)) = w

\* attr || "" for an attribute that is null or a string
OrEmpty(attr) == IF attr = Null \/ attr = Str(<<>>) THEN <<>> ELSE attr.val

\* the record made of one img element
ImageRecord(img) ==
    [src     |-> Str(OrEmpty(img.src)),
     alt     |-> img.alt,
     width   |-> img.width,
     height  |-> img.height,
     loading |-> img.loading]

\* the test without the trim
MissingAltNoTrim(i) == i.alt = Null \/ i.alt.val = <<>>
\* i.alt === null || i.alt.trim() === ""
MissingAlt(i) == i.alt = Null \/ Trim(i.alt.val) = <<>>

LAZY == <<"l", "a", "z", "y">>

\* (i.loading || "").toLowerCase() === "lazy"
IsLazy(i) == ToLowerCase(OrEmpty(i.loading)) = LAZY

\* images.filter(i => ...).length
MissingAltCount(images) == Cardinality({n \in 1..Len(images) : MissingAlt(images[n])})
LazyCount(images) == Cardinality({n \in 1..Len(images) : IsLazy(images[n])})

\* images.slice(0, 40)
IMAGE_SLICE == 40
SliceImages(images) == SubSeq(images, 1, Min(Len(images), IMAGE_SLICE))

Digits == {"0", "1", "2", "3", "4", "5", "6", "7", "8", "9"}

\* /\$[\d,.]+/.test(text)
PriceTest(text) ==
    \E n \in 1..(Len(text) - 1) :
        text[n] = "$" /\ text[n + 1] \in Digits \cup {",", "."}

W_SHIPPING == <<"s", "h", "i", "p", "p", "i", "n", "g">>
W_RETURNS == <<"r", "e", "t", "u", "r", "n", "s">>
W_MONEY == <<"m", "o", "n", "e", "y">>
W_BACK == <<"b", "a", "c", "k">>
W_GUARANTEE == <<"g", "u", "a", "r", "a", "n", "t", "e", "e">>
W_ADD == <<"a", "d", "d">>
W_CART == <<"c", "a", "r", "t">>

\* /(shipping|returns|money[- ]back|guarantee)/i.test(text)
ShippingTest(text) ==
    LET t == ToLowerCase(text)
    IN  \/ Includes(t, W_SHIPPING)
        \/ Includes(t, W_RETURNS)
        \/ Includes(t, W_MONEY \o <<"-">> \o W_BACK)
        \/ Includes(t, W_MONEY \o <<" ">> \o W_BACK)
        \/ Includes(t, W_GUARANTEE)

\* (b.textContent || "").trim().toLowerCase() of every matched button
ButtonTexts(buttons) == [n \in 1..Len(buttons) |-> ToLowerCase(Trim(buttons[n]))]

\* addToCartButtons.some(...) || addToCartButtons.length > 0
AddToCartTest(texts) ==
    \/ \E n \in 1..Len(texts) : Includes(texts[n], W_ADD) /\ Includes(texts[n], W_CART)
    \/ Len(texts) > 0

\* The document is what JSDOM's queries return for it: doc.imgs the img
\* elements in document order, doc.search whether the search selector
\* matches, doc.buttons the textContent of the buttons the add-to-cart
\* selector matches, doc.text the body's textContent.
ScanDocument(doc) ==
    LET images == [n \in 1..Len(doc.imgs) |-> ImageRecord(doc.imgs[n])]
    IN  [imageCount      |-> Len(images),
         missingAltCount |-> MissingAltCount(images),
         lazyCount       |-> LazyCount(images),
         hasSearch       |-> doc.search,
         hasAddToCart    |-> AddToCartTest(ButtonTexts(doc.buttons)),
         hasPrice        |-> PriceTest(doc.text),
         hasShippingText |-> ShippingTest(doc.text),
         images          |-> SliceImages(images)]

-----------------------------------------------------------------------------
(* The pure parts, each applied once to an argument drawn from a bounded set *)

\* metric values within Near units of a threshold are drawn
Near == 1
\* ScanResults with up to MaxImageCount images are drawn
MaxImageCount == 27
\* documents with up to MaxDocImages img elements are drawn
MaxDocImages == 42

LcpValues ==
    {Null, Num(0), Num(1000 * Scale), Num(3501 * Scale)}
        \cup {Num(LCP_LIMIT + d) : d \in (0 - Near)..Near}

\* 0.01, and the values around 0.1 (0.1001 is CLS_LIMIT + 1)
ClsValues ==
    {Null, Num(0), Num(Scale \div 100)}
        \cup {Num(CLS_LIMIT + d) : d \in (0 - Near)..Near}

\* The ScanResults drawn keep what scanPage guarantees of its counts.
ScanValue(n, m, l, a, t) ==
    [imageCount |-> n, missingAltCount |-> m, lazyCount |-> l,
     hasAddToCart |-> a, hasShippingText |-> t]

FindingsArg(lcp, cls, sc) ==
    [fn |-> "prioritizeFindings",
     lhMobile |-> [metrics |-> [lcp_ms |-> lcp, cls |-> cls]],
     scan |-> sc]

\* 0.574 rounds to 57; no score drawn is half-way between two integers
ScoreValues == {Null, Num(0), Num(574), Num(ScoreScale)}
AuditValues == {Undefined, [numericValue |-> Undefined],
                [numericValue |-> Num(0)], [numericValue |-> Num(2500 * Scale)]}

ScorerArg(c, a) == [fn |-> "runLighthouse", lhr |-> [categories |-> c, audits |-> a]]

A_ALT == <<"a", "l", "t">>
S_LAZY == <<"L", "a", "Z", "y">>
S_EAGER == <<"e", "a", "g", "e", "r">>
S_SRC == <<"a", ".", "p", "n", "g">>

Img(src, alt, loading) ==
    [src |-> src, alt |-> alt, width |-> Null, height |-> Null, loading |-> loading]

ImgKinds ==
    {Img(Str(S_SRC), Str(A_ALT), Null),
     Img(Null, Null, Str(LAZY)),
     Img(Str(S_SRC), Str(<<" ", "\t">>), Str(S_LAZY)),
     Img(Str(<<>>), Str(<<" ">> \o A_ALT), Str(S_EAGER))}

\* k elements a followed by n - k elements b
ImgList(n, k, a, b) == [j \in 1..n |-> IF j <= k THEN a ELSE b]

T_PLAIN == <<"h", "i">>
T_PRICE == <<"$", "9", ".", "5", "0", " ">> \o <<"F", "r", "e", "e", " ">> \o
           <<"S", "h", "i", "p", "p", "i", "n", "g">>
B_ATC == <<" ", "A", "d", "d", " ", "t", "o", " ", "C", "a", "r", "t", "\n">>

Furniture ==
    {[search |-> FALSE, buttons |-> <<>>, text |-> T_PLAIN],
     [search |-> TRUE, buttons |-> <<B_ATC>>, text |-> T_PRICE],
     [search |-> FALSE, buttons |-> <<<<"o", "k">>>>, text |-> <<>>]}

ScanArg(n, k, a, b, f) ==
    [fn |-> "scanPage",
     doc |-> [imgs |-> ImgList(n, k, a, b), search |-> f.search,
              buttons |-> f.buttons, text |-> f.text]]

-----------------------------------------------------------------------------
(* The audit run: main() and the calls it awaits *)

PAGES == <<"https://gritarmy.com/",
           "https://gritarmy.com/collections/socks",
           "https://gritarmy.com/cart",
           "https://gritarmy.com/products/high-compression-socks-adult",
           "https://gritarmy.com/products/premium-athletic-crew-socks",
           "https://gritarmy.com/products/grit-army-trifecta">>

PageIds == 1..Len(PAGES)
Scorers == {"mobile", "desktop"}
Kinds == Scorers \cup {"scan"}

\* process.env.GS_WEBHOOK_URL || ""
WebhookValues == {"", "https://script.example/hook"}

\* What the audited site answers: lighthouse resolves with a result that
\* depends on the emulated form factor (two possible on mobile, one on
\* desktop), the fetch of page p with the document DocOf(p).
SlowLhr ==
    [categories |-> [c \in CategoryNames |-> [score |-> Num(574)]],
     audits |-> [a \in AuditNames |->
                   IF a = "cumulative-layout-shift"
                   THEN [numericValue |-> Num(CLS_LIMIT + 1)]
                   ELSE [numericValue |-> Num(4200 * Scale)]]]

BareLhr ==
    [categories |-> [c \in CategoryNames |->
                       [score |-> IF c = "seo" THEN Null ELSE Num(ScoreScale)]],
     audits |-> [a \in AuditNames |->
                   IF a = "cumulative-layout-shift" THEN Undefined
                   ELSE [numericValue |-> Num(0)]]]

FastLhr ==
    [categories |-> [c \in CategoryNames |-> [score |-> Num(996)]],
     audits |-> [a \in AuditNames |-> [numericValue |-> Num(Scale \div 100)]]]

SampleLhrs(formFactor) ==
    IF formFactor = "mobile" THEN {SlowLhr, BareLhr} ELSE {FastLhr}

DocOf(p) ==
    IF p % 2 = 1
    THEN [imgs |-> ImgList(3, 1, Img(Null, Null, Str(LAZY)), Img(Str(S_SRC), Str(A_ALT), Null)),
          search |-> TRUE, buttons |-> <<B_ATC>>, text |-> T_PLAIN]
    ELSE [imgs |-> <<>>, search |-> FALSE, buttons |-> <<>>, text |-> T_PRICE]

\* Promise.all([...]) of page p is fulfilled / is rejected
AllFulfilled(p) == \A k \in Kinds : ops[p][k] = "resolved"
AnyRejected(p) == \E k \in Kinds : ops[p][k] = "rejected"

\* every remaining page at once, in place of one page per iteration
PagesToStartAll(p) == p..Len(PAGES)
\* the pages whose three calls main() issues when its loop reaches page p
PagesToStart(p) == {p}

\* the position of each call at its first await: launch(...) and fetch(url)
Started == [k \in Kinds |-> IF k \in Scorers THEN "launching" ELSE "fetching"]

StartPage(p) == [q \in PageIds |-> IF q \in PagesToStart(p) THEN Started ELSE ops[q]]

\* report.pages.unshift(rec) in place of push
PushPageFront(pages, rec) == <<rec>> \o pages
\* report.pages.push(rec)
PushPage(pages, rec) == Append(pages, rec)

PageRecord(p) ==
    [url      |-> PAGES[p],
     mobile   |-> res[p]["mobile"],
     desktop  |-> res[p]["desktop"],
     scan     |-> res[p]["scan"],
     findings |-> prioritizeFindings(res[p]["mobile"], res[p]["scan"])]

Urls(pages) == [n \in 1..Len(pages) |-> pages[n].url]

\* the code of a process that ends with nothing left to run
ExitCodeZero == 0

\* a catch of main() that does not set the exit code
ExitCodeSwallowed == ExitCodeZero
\* process.exit(1) in the catch of main()
ExitCodeOnError == 1

\* a catch that logs and rethrows
PostOutcomeRethrow(ok) ==
    [log |-> IF ok THEN {} ELSE {"webhook"}, throws |-> ~ok]
\* what postToGoogleSheets does with the settled fetch: the catch logs a
\* rejection and nothing is thrown to main()
PostOutcome(ok) ==
    [log |-> IF ok THEN {} ELSE {"webhook"}, throws |-> FALSE]

Running == exitCode = -1

InitRun ==
    /\ pc = "start"
    /\ cur = 0
    /\ ops = [p \in PageIds |-> [k \in Kinds |-> "idle"]]
    /\ settle = [p \in PageIds |-> [k \in Scorers |-> "none"]]
    /\ browser = [p \in PageIds |-> [k \in Scorers |-> "none"]]
    /\ res = [p \in PageIds |-> [k \in Kinds |-> None]]
    /\ report = <<>>
    /\ files = [json |-> None, html |-> None]
    /\ posts = 0
    /\ errlog = {}
    /\ exitCode = -1

Init ==
    /\ InitRun
    /\ webhook \in WebhookValues
    /\ arg = None
    /\ ret = None

\* main() up to its first await: the three calls of the first page
MainStart ==
    /\ pc = "start"
    /\ Len(PAGES) > 0
    /\ pc' = "await"
    /\ cur' = 1
    /\ ops' = StartPage(1)
    /\ UNCHANGED <<settle, browser, res, report, files, posts, errlog, exitCode,
                   webhook, arg, ret>>

\* await launch(...) settles: the browser is up, or runLighthouse rejects
\* before its try
LaunchSettles(p, k) ==
    /\ Running
    /\ ops[p][k] = "launching"
    /\ \/ /\ browser' = [browser EXCEPT ![p][k] = "up"]
          /\ ops' = [ops EXCEPT ![p][k] = "scoring"]
       \/ /\ ops' = [ops EXCEPT ![p][k] = "rejected"]
          /\ UNCHANGED browser
    /\ UNCHANGED <<pc, cur, settle, res, report, files, posts, errlog, exitCode,
                   webhook, arg, ret>>

\* await lighthouse(url, flags) settles; either way the finally block is
\* entered and chrome.kill() is called and awaited
LighthouseSettles(p, k) ==
    /\ Running
    /\ ops[p][k] = "scoring"
    /\ \/ \E lhr \in SampleLhrs(k) :
            /\ settle' = [settle EXCEPT ![p][k] = "ok"]
            /\ res' = [res EXCEPT ![p][k] = Normalize(lhr)]
       \/ /\ settle' = [settle EXCEPT ![p][k] = "fail"]
          /\ UNCHANGED res
    /\ ops' = [ops EXCEPT ![p][k] = "killing"]
    /\ UNCHANGED <<pc, cur, browser, report, files, posts, errlog, exitCode,
                   webhook, arg, ret>>

\* await chrome.kill() completes: runLighthouse returns or rethrows
KillSettles(p, k) ==
    /\ Running
    /\ ops[p][k] = "killing"
    /\ browser' = [browser EXCEPT ![p][k] = "killed"]
    /\ ops' = [ops EXCEPT ![p][k] =
                 IF settle[p][k] = "ok" THEN "resolved" ELSE "rejected"]
    /\ UNCHANGED <<pc, cur, settle, res, report, files, posts, errlog, exitCode,
                   webhook, arg, ret>>

\* await fetch(url) settles
FetchSettles(p) ==
    /\ Running
    /\ ops[p]["scan"] = "fetching"
    /\ \/ ops' = [ops EXCEPT ![p]["scan"] = "reading"]
       \/ ops' = [ops EXCEPT ![p]["scan"] = "rejected"]
    /\ UNCHANGED <<pc, cur, settle, browser, res, report, files, posts, errlog,
                   exitCode, webhook, arg, ret>>

\* await res.text() settles, and the document is parsed and scanned
TextSettles(p) ==
    /\ Running
    /\ ops[p]["scan"] = "reading"
    /\ \/ /\ ops' = [ops EXCEPT ![p]["scan"] = "resolved"]
          /\ res' = [res EXCEPT ![p]["scan"] = ScanDocument(DocOf(p))]
       \/ /\ ops' = [ops EXCEPT ![p]["scan"] = "rejected"]
          /\ UNCHANGED res
    /\ UNCHANGED <<pc, cur, settle, browser, report, files, posts, errlog,
                   exitCode, webhook, arg, ret>>

\* Promise.all is fulfilled and another page follows: the findings, the
\* push, and the three calls of the next page
MainNextPage ==
    /\ pc = "await"
    /\ AllFulfilled(cur)
    /\ cur < Len(PAGES)
    /\ report' = PushPage(report, PageRecord(cur))
    /\ cur' = cur + 1
    /\ ops' = StartPage(cur + 1)
    /\ UNCHANGED <<pc, settle, browser, res, files, posts, errlog, exitCode,
                   webhook, arg, ret>>

\* Promise.all of the last page is fulfilled: the findings, the push, the
\* two writeFileSync calls (either may throw) and postToGoogleSheets up to
\* its fetch; with no webhook main() returns and the process ends
MainLastPage ==
    /\ pc = "await"
    /\ AllFulfilled(cur)
    /\ cur = Len(PAGES)
    /\ report' = PushPage(report, PageRecord(cur))
    /\ \/ /\ files' = [json |-> Str(Urls(report')), html |-> Str(Urls(report'))]
          /\ IF webhook = ""
             THEN /\ pc' = "exited"
                  /\ exitCode' = ExitCodeZero
                  /\ UNCHANGED posts
             ELSE /\ pc' = "posting"
                  /\ posts' = posts + 1
                  /\ UNCHANGED exitCode
          /\ UNCHANGED errlog
       \/ /\ files' \in {[json |-> None, html |-> None],
                         [json |-> Str(Urls(report')), html |-> None]}
          /\ errlog' = errlog \cup {"fatal"}
          /\ pc' = "exited"
          /\ exitCode' = ExitCodeOnError
          /\ UNCHANGED posts
    /\ UNCHANGED <<cur, ops, settle, browser, res, webhook, arg, ret>>

\* the webhook fetch settles: postToGoogleSheets returns, main() logs Done
PostSettles ==
    /\ pc = "posting"
    /\ \E ok \in BOOLEAN :
          /\ errlog' = errlog \cup PostOutcome(ok).log
                              \cup (IF PostOutcome(ok).throws THEN {"fatal"} ELSE {})
          /\ exitCode' = IF PostOutcome(ok).throws THEN ExitCodeOnError ELSE ExitCodeZero
    /\ pc' = "exited"
    /\ UNCHANGED <<cur, ops, settle, browser, res, report, files, posts, webhook,
                   arg, ret>>

\* Promise.all is rejected: main() rejects, the catch logs the error and
\* calls process.exit(1), whatever the other calls are doing
MainAbort ==
    /\ pc = "await"
    /\ AnyRejected(cur)
    /\ errlog' = errlog \cup {"fatal"}
    /\ exitCode' = ExitCodeOnError
    /\ pc' = "exited"
    /\ UNCHANGED <<cur, ops, settle, browser, res, report, files, posts, webhook,
                   arg, ret>>

Next ==
    \/ MainStart
    \/ \E p \in PageIds, k \in Scorers : LaunchSettles(p, k)
    \/ \E p \in PageIds, k \in Scorers : LighthouseSettles(p, k)
    \/ \E p \in PageIds, k \in Scorers : KillSettles(p, k)
    \/ \E p \in PageIds : FetchSettles(p)
    \/ \E p \in PageIds : TextSettles(p)
    \/ MainNextPage
    \/ MainLastPage
    \/ PostSettles
    \/ MainAbort

Spec == Init /\ [][Next]_vars

\* main()'s continuations run as soon as the promise they await settles;
\* nothing bounds how long a launch, an audit or a fetch takes
FairSpec ==
    Spec /\ WF_vars(MainStart) /\ WF_vars(MainNextPage) /\ WF_vars(MainLastPage)
         /\ WF_vars(MainAbort)

-----------------------------------------------------------------------------
(* The specifications of the pure parts *)

InitFindings ==
    /\ InitRun
    /\ webhook = ""
    /\ ret = None
    /\ \E lcp \in LcpValues, cls \in ClsValues, n \in 0..MaxImageCount :
         \E m \in {0, n}, l \in 0..n, a \in BOOLEAN, t \in BOOLEAN :
            arg = FindingsArg(lcp, cls, ScanValue(n, m, l, a, t))

CallPrioritizeFindings ==
    /\ arg.fn = "prioritizeFindings"
    /\ ret = None
    /\ ret' = Str(prioritizeFindings(arg.lhMobile, arg.scan))
    /\ UNCHANGED <<runVars, arg>>

SpecFindings == InitFindings /\ [][CallPrioritizeFindings]_vars

InitScorer ==
    /\ InitRun
    /\ webhook = ""
    /\ ret = None
    /\ \E c \in [CategoryNames -> {[score |-> v] : v \in ScoreValues}],
          a \in [AuditNames -> AuditValues] :
            arg = ScorerArg(c, a)

CallNormalize ==
    /\ arg.fn = "runLighthouse"
    /\ ret = None
    /\ ret' = Normalize(arg.lhr)
    /\ UNCHANGED <<runVars, arg>>

SpecScorer == InitScorer /\ [][CallNormalize]_vars

InitScan ==
    /\ InitRun
    /\ webhook = ""
    /\ ret = None
    /\ \E n \in 0..MaxDocImages, a \in ImgKinds, b \in ImgKinds, f \in Furniture :
         \E k \in 0..n : arg = ScanArg(n, k, a, b, f)

CallScanDocument ==
    /\ arg.fn = "scanPage"
    /\ ret = None
    /\ ret' = ScanDocument(arg.doc)
    /\ UNCHANGED <<runVars, arg>>

SpecScan == InitScan /\ [][CallScanDocument]_vars

-----------------------------------------------------------------------------
(* The claims *)

Scanned(p) == res[p]["scan"] # None
Launched(p, k) == browser[p][k] # "none"
InFlight == {pk \in PageIds \X Kinds : ops[pk[1]][pk[2]] \notin {"idle", "resolved", "rejected"}}
BrowsersUp == {pk \in PageIds \X Scorers : browser[pk[1]][pk[2]] = "up"}
Exited == pc = "exited"

\* C1: every browser a scorer call launched is killed before that call
\* returns or throws, and no launched browser is still un-killed once the
\* process has exited, also when the run was aborted.
C1_BrowsersTornDown ==
    \A p \in PageIds, k \in Scorers :
        /\ ops[p][k] \in {"resolved", "rejected"} => browser[p][k] # "up"
        /\ Exited => browser[p][k] # "up"

C2_State ==
    \A p \in PageIds :
        AnyRejected(p) =>
            /\ Len(report) < p
            /\ files = [json |-> None, html |-> None]
            /\ posts = 0
            /\ pc \in {"await", "exited"}
            /\ exitCode # 0
            /\ Exited => exitCode > 0

\* C2: once one of the three calls of a page has failed, no PageRecord is
\* assembled for that page, no report file is written, no POST is issued,
\* and the process exits with a non-zero code.
C2_AbortOnFailure ==
    /\ []C2_State
    /\ (\E p \in PageIds : AnyRejected(p)) ~> (Exited /\ exitCode > 0)

C2_Witness ==
    /\ Exited
    /\ exitCode > 0
    /\ cur = 2
    /\ ops[2]["scan"] = "rejected"
    /\ ops[2]["mobile"] = "resolved"
    /\ Len(report) = 1

\* C3: the URLs of report.pages are always a prefix of PAGES, in PAGES'
\* order, and the whole of PAGES when the run has succeeded.
C3_PagesPrefix ==
    /\ Len(report) <= Len(PAGES)
    /\ Urls(report) = SubSeq(PAGES, 1, Len(report))
    /\ (Exited /\ exitCode = 0) => Urls(report) = PAGES

C3_Witness ==
    /\ Exited
    /\ exitCode = 0
    /\ Len(report) = Len(PAGES)
    /\ report[1].findings # report[2].findings

\* C4: a failed webhook POST is logged and absorbed: both report files are
\* written before the POST and stay written, the process ends with code 0;
\* with an empty endpoint no POST is issued.
C4_WebhookAbsorbed ==
    /\ "webhook" \in errlog =>
          /\ Exited
          /\ exitCode = 0
          /\ "fatal" \notin errlog
    /\ posts > 0 =>
          /\ webhook # ""
          /\ files = [json |-> Str(PAGES), html |-> Str(PAGES)]
          /\ exitCode \in {-1, 0}
    /\ webhook = "" => posts = 0

C4_Witness ==
    /\ "webhook" \in errlog
    /\ posts = 1
    /\ Exited
    /\ exitCode = 0
    /\ files.html = Str(PAGES)

\* C5: no call of a page starts before the three calls of every earlier
\* page have completed, a page's findings are computed only after its three
\* calls have completed, and at most two browsers and three calls are in
\* flight at any time.
C5_Sequential ==
    /\ \A p \in PageIds :
          (\E k \in Kinds : ops[p][k] # "idle") =>
              \A q \in 1..(p - 1) : AllFulfilled(q)
    /\ \A p \in 1..Len(report) : AllFulfilled(p)
    /\ Cardinality(BrowsersUp) <= 2
    /\ Cardinality(InFlight) <= 3

C5_Witness ==
    /\ cur = 2
    /\ Len(report) = 1
    /\ BrowsersUp = {<<2, "mobile">>, <<2, "desktop">>}
    /\ Cardinality(InFlight) = 3

AllFive == <<Finding("HIGH", "Performance"), Finding("MED", "UX / Layout"),
             Finding("MED", "Accessibility / SEO"), Finding("MED", "Images"),
             Finding("LOW", "Trust / Conversion")>>

RankOf(f) == CHOOSE n \in 1..Len(AllFive) : AllFive[n] = f
HasType(fs, type) == \E n \in 1..Len(fs) : fs[n].type = type
FindingsDone == arg # None /\ arg.fn = "prioritizeFindings" /\ ret # None

\* the five trigger conditions, read from the argument
LcpOf(a) == a.lhMobile.metrics.lcp_ms
ClsOf(a) == a.lhMobile.metrics.cls
SlowLcp(a) == LcpOf(a).tag = "num" /\ LcpOf(a).val > 3500 * Scale
HighCls(a) == ClsOf(a).tag = "num" /\ 10 * ClsOf(a).val > Scale
SomeAltMissing(a) == a.scan.missingAltCount >= 1
FewLazy(a) == a.scan.imageCount >= 26 /\ 2 * (a.scan.lazyCount + 1) <= a.scan.imageCount
NoTrustCopy(a) == a.scan.hasAddToCart /\ ~a.scan.hasShippingText
Triggered(a) ==
    <<SlowLcp(a), HighCls(a), SomeAltMissing(a), FewLazy(a), NoTrustCopy(a)>>

\* the input of the spec's zero-findings scenario
QuietArg ==
    FindingsArg(Num(1000 * Scale), Num(Scale \div 100),
                ScanValue(0, 0, 0, FALSE, FALSE))

\* C6: the findings prioritizeFindings returns are in rule order, each rule
\* at most once; five findings HIGH, MED, MED, MED, LOW when every rule
\* triggers, none when no rule does.
C6_RuleOrder ==
    FindingsDone =>
        LET fs == ret.val
        IN  /\ \A n \in 1..Len(fs) : \E r \in 1..Len(AllFive) : AllFive[r] = fs[n]
            /\ \A i \in 1..Len(fs), j \in 1..Len(fs) :
                  i < j => RankOf(fs[i]) < RankOf(fs[j])
            /\ (\A r \in 1..5 : Triggered(arg)[r]) =>
                  /\ Len(fs) = 5
                  /\ [n \in 1..5 |-> fs[n].severity] = <<"HIGH", "MED", "MED", "MED", "LOW">>
                  /\ fs = AllFive
            /\ (\A r \in 1..5 : ~Triggered(arg)[r]) => fs = <<>>
            /\ arg = QuietArg => fs = <<>>

C6_Witness ==
    /\ FindingsDone
    /\ \A r \in 1..5 : Triggered(arg)[r]
    /\ Len(ret.val) = 5

\* C7: the Performance finding is there iff lcp_ms is present and above
\* 3500 (not at 3500, at 3501), the UX / Layout finding iff cls is present
\* and above 0.1 (not at 0.1, at 0.1001); a null metric and a metric of 0
\* fire nothing.
C7_Thresholds ==
    FindingsDone =>
        LET fs == ret.val
            perf == HasType(fs, "Performance")
            layout == HasType(fs, "UX / Layout")
        IN  /\ perf <=> SlowLcp(arg)
            /\ layout <=> HighCls(arg)
            /\ LcpOf(arg) = Num(3500 * Scale) => ~perf
            /\ LcpOf(arg) = Num(3501 * Scale) => perf
            /\ LcpOf(arg) \in {Null, Num(0)} => ~perf
            /\ ClsOf(arg) = Num(Scale \div 10) => ~layout
            /\ ClsOf(arg) = Num(Scale \div 10 + 1) => layout
            /\ ClsOf(arg) \in {Null, Num(0)} => ~layout

C7_Witness ==
    /\ FindingsDone
    /\ LcpOf(arg) = Num(3500 * Scale)
    /\ ClsOf(arg) = Num(Scale \div 10 + 1)
    /\ ~HasType(ret.val, "Performance")
    /\ HasType(ret.val, "UX / Layout")

\* C8: the Images finding is there iff imageCount > 25 and lazyCount is
\* below floor(imageCount / 2): never up to 25 images, at 26 images with 12
\* lazy, not at 26 images with 13 lazy.
C8_ImagesRule ==
    FindingsDone =>
        LET images == HasType(ret.val, "Images")
        IN  /\ images <=> FewLazy(arg)
            /\ arg.scan.imageCount <= 25 => ~images
            /\ (arg.scan.imageCount = 26 /\ arg.scan.lazyCount = 12) => images
            /\ (arg.scan.imageCount = 26 /\ arg.scan.lazyCount = 13) => ~images

C8_Witness ==
    /\ FindingsDone
    /\ arg.scan.imageCount = 26
    /\ arg.scan.lazyCount = 12
    /\ HasType(ret.val, "Images")

ScanDone == arg # None /\ arg.fn = "scanPage" /\ ret # None

\* read from the img elements of the document
HasAltText(img) ==
    /\ img.alt.tag = "str"
    /\ \E n \in 1..Len(img.alt.val) : img.alt.val[n] \notin {" ", "\t", "\n"}
LoadsLazily(img) ==
    /\ img.loading.tag = "str"
    /\ Len(img.loading.val) = 4
    /\ img.loading.val[1] \in {"l", "L"}
    /\ img.loading.val[2] \in {"a", "A"}
    /\ img.loading.val[3] \in {"z", "Z"}
    /\ img.loading.val[4] \in {"y", "Y"}

\* C9: in the ScanResult of a document, missingAltCount and lazyCount are
\* at most imageCount, missingAltCount plus the number of images with a
\* non-blank alt is imageCount, the counts are over all images, and images
\* holds the first min(imageCount, 40) images in document order.
C9_ScanCounts ==
    ScanDone =>
        LET imgs == arg.doc.imgs
            n == Len(imgs)
        IN  /\ ret.imageCount = n
            /\ ret.missingAltCount <= ret.imageCount
            /\ ret.lazyCount <= ret.imageCount
            /\ ret.missingAltCount + Cardinality({j \in 1..n : HasAltText(imgs[j])})
                  = ret.imageCount
            /\ ret.lazyCount = Cardinality({j \in 1..n : LoadsLazily(imgs[j])})
            /\ Len(ret.images) = (IF n < 40 THEN n ELSE 40)
            /\ \A j \in 1..Len(ret.images) :
                  /\ ret.images[j].alt = imgs[j].alt
                  /\ ret.images[j].loading = imgs[j].loading
                  /\ ret.images[j].width = imgs[j].width
                  /\ ret.images[j].height = imgs[j].height
                  /\ ret.images[j].src.tag = "str"
                  /\ imgs[j].src.tag = "str" => ret.images[j].src = imgs[j].src

C9_Witness ==
    /\ ScanDone
    /\ ret.imageCount = 41
    /\ Len(ret.images) = 40
    /\ ret.missingAltCount = 1
    /\ ret.lazyCount = 1
    /\ arg.doc.imgs[41].alt = Null
    /\ LoadsLazily(arg.doc.imgs[41])

ScorerDone == arg # None /\ arg.fn = "runLighthouse" /\ ret # None

ScoreFields ==
    {<<"performance", "performance">>, <<"accessibility", "accessibility">>,
     <<"bestPractices", "best-practices">>, <<"seo", "seo">>}
MetricFields ==
    {<<"lcp_ms", "largest-contentful-paint">>, <<"cls", "cumulative-layout-shift">>,
     <<"tbt_ms", "total-blocking-time">>, <<"speedIndex_ms", "speed-index">>}

Unmeasured(audit) ==
    audit = Undefined \/ audit.numericValue \in {Undefined, Null}

\* C10: every score runLighthouse returns is an integer from 0 to 100, 0
\* when the category's score is null; every metric is null exactly when its
\* audit or the audit's numericValue is absent, and a measured 0 stays 0.
C10_Normalized ==
    ScorerDone =>
        /\ \A sf \in ScoreFields :
              /\ ret.scores[sf[1]] \in 0..100
              /\ arg.lhr.categories[sf[2]].score = Null => ret.scores[sf[1]] = 0
        /\ \A mf \in MetricFields :
              LET audit == arg.lhr.audits[mf[2]]
                  m == ret.metrics[mf[1]]
              IN  /\ m = Null <=> Unmeasured(audit)
                  /\ ~Unmeasured(audit) => m = audit.numericValue
                  /\ (~Unmeasured(audit) /\ audit.numericValue = Num(0)) => m = Num(0)

C10_Witness ==
    /\ ScorerDone
    /\ arg.lhr.categories["seo"].score = Null
    /\ ret.scores.seo = 0
    /\ ret.scores.performance = 57
    /\ arg.lhr.audits["largest-contentful-paint"] = [numericValue |-> Num(0)]
    /\ ret.metrics.lcp_ms = Num(0)
    /\ arg.lhr.audits["cumulative-layout-shift"] = Undefined
    /\ ret.metrics.cls = Null
    /\ arg.lhr.audits["speed-index"] = [numericValue |-> Undefined]
    /\ ret.metrics.speedIndex_ms = Null

=============================================================================
